---- MODULE Spec2Model ----
(***************************************************************************)
(* A model of dlqmc/sampling.py: the three Markov-chain kernels            *)
(* (metropolis, hmc, langevin_monte_carlo) as suspended generators, the    *)
(* trajectory assembler samples_from that drives a generator, and the      *)
(* geometry-based walker initializer (take, sample_start).                 *)
(*                                                                         *)
(* A walker batch is a function Walkers -> Pos: one abstract configuration *)
(* per walker.  Random draws (proposal noise, uniform acceptance draws,    *)
(* np.random.choice) are nondeterministic choices.                         *)
(***************************************************************************)
EXTENDS Integers, Sequences, FiniteSets, TLC

\* ------------------------------------------------------------------ bounds
\* Steps pulled from a langevin chain, and from a chain of any kernel.
MaxSteps == 4
MaxShortSteps == 2
\* hmc's dysteps.
MaxDysteps == 2
\* The step indices, the length of steps, n_discard and n_decorrelate that
\* samples_from is called with.
MaxIdx == 3
MaxLen == 3
MaxDiscard == 2
MaxDecorrelate == 2
\* The walkers and electrons sample_start is called with.
MaxWalkers == 2
MaxElectrons == 3

\* The walker batch: two walkers, each at one of two configurations.
Walkers == {1, 2}
Pos == {0, 1}
Batches == [Walkers -> Pos]
Masks == [Walkers -> BOOLEAN]

\* An unset local of a generator frame / an absent tensor.
Unset == << >>

\* ------------------------------------------------- external collaborators
\* The wavefunctions the kernels are run with: a constant one, one with a
\* node (amplitude 0) at position 0, one without nodes.
Wavefunctions ==
    { [p \in Pos |-> 1], [p \in Pos |-> p], [p \in Pos |-> p + 1] }

\* wf(rs): one amplitude per walker.
WfEval(f, batch) == [w \in Walkers |-> f[batch[w]]]

\* The drift at a position: a forward difference of the amplitude.
Force(f, p) == f[IF p + 1 \in Pos THEN p + 1 ELSE 0] - f[p]

\* quantum_force(rs, wf): forces and amplitudes, or the factorization
\* failure with the indices of the walkers whose configuration is singular.
QForce(f, batch) ==
    LET bad == {w \in Walkers : f[batch[w]] = 0}
    IN  [ok |-> bad = {},
         idxs |-> bad,
         forces |-> [w \in Walkers |-> Force(f, batch[w])],
         psis |-> WfEval(f, batch)]

\* assign_where(xs, ys, where): rows of accepted walkers are overwritten.
AssignWhere(x, y, where) == [w \in Walkers |-> IF where[w] THEN y[w] ELSE x[w]]

\* ------------------------------------------------------------------ state
VARIABLES
    \* the sampler: a generator object and its frame
    kernel,        \* "synthetic" | "metropolis" | "hmc" | "langevin"
    wf,            \* the wavefunction the generator was created with
    device,        \* "cpu" | "cuda": where the walker tensors live
    dysteps,       \* hmc's number of leapfrog sub-steps
    rs0,           \* the walker positions the generator was created with
    gpc,           \* "created" | "suspended" (at its yield) | "finished"
    rs, psis, forces, lifetime,   \* the chain's live tensors
    rs_new, accepted,             \* the frame's locals of the last step
    raised,        \* the exception that ended the generator
    resumed,       \* next() on the finished generator gave StopIteration
    \* samples_from: one call in progress
    steps, n_discard, n_decorrelate,
    j,             \* indices drawn from steps so far
    pulled,        \* times the sampler was advanced
    kept,          \* the steps that passed the filter, in pull order
    spc,           \* "idle" | "running" | "returned" | "raised"
    result,        \* what samples_from returned
    sferr,         \* the exception samples_from raised
    \* sample_start: one call in progress
    charges, n_walker, n_electrons,
    tpc,           \* "idle" | "take" | "rows" | "returned"
    n_left, l,     \* take's n and its list l (positions of a, concatenated)
    lastTake,      \* take's last return value, as positions of a
    ind,           \* the rows take has returned, as atom indices
    shape          \* the shape of the batch sample_start returned

genVars == <<kernel, wf, device, dysteps, rs0, gpc, rs, psis, forces, lifetime,
             rs_new, accepted, raised, resumed>>
sfVars == <<steps, n_discard, n_decorrelate, j, pulled, kept, spc, result, sferr>>
startVars == <<charges, n_walker, n_electrons, tpc, n_left, l, lastTake, ind, shape>>
vars == <<genVars, sfVars, startVars>>

\* ---------------------------------------------------- tensors handed out
\* A tensor or array handed to the caller: either storage of its own holding
\* v, or a view of one of the chain's live buffers (v is then what the
\* buffer held when the view was handed out).
Clone(x) == [buf |-> "none", v |-> x]

\* tensor.cpu().numpy(): .cpu() returns the tensor itself when it already
\* lives on the CPU, and .numpy() shares the tensor's memory.
CpuNumpy(dev, name, x) ==
    IF dev = "cpu" THEN [buf |-> name, v |-> x] ELSE [buf |-> "none", v |-> x]

NoLifetime == [buf |-> "none", v |-> Unset]

\* What a handed-out tensor holds now.
Read(t) ==
    CASE t.buf = "lifetime" -> lifetime
      [] t.buf = "rs" -> rs
      [] t.buf = "psis" -> psis
      [] OTHER -> t.v

Last(q) == q[Len(q)]

Count(mask) == Cardinality({w \in Walkers : mask[w]})

\* info = {'acceptance': accepted.sum() / rs.shape[0]} as a fraction.
Acceptance(mask) == [num |-> Count(mask), den |-> Cardinality(Walkers)]

NoError == [kind |-> "none", idxs |-> {}, has_rs |-> FALSE, rs |-> Unset]
NoItem == [pos |-> Clone(Unset), psi |-> Clone(Unset),
           info |-> [acceptance |-> Acceptance([w \in Walkers |-> FALSE]),
                     lifetime |-> NoLifetime]]

\* ------------------------------------------------------------- acceptance
\* accepted = Ps_acc > rand, rand uniform in [0, 1), for
\* Ps_acc = factor * num / den with num, den squared amplitudes: x/0 is inf
\* (accepted) and 0/0 is nan (never greater); exact says the factor is 1.
Outcomes(num, den, exact) ==
    IF den = 0 THEN (IF num = 0 THEN {FALSE} ELSE {TRUE})
    ELSE IF num = 0 THEN {FALSE}
    ELSE IF exact /\ num >= den THEN {TRUE}
    ELSE BOOLEAN

AcceptMasks(new, old, exact) ==
    {m \in Masks : \A w \in Walkers :
        m[w] \in Outcomes(new[w] * new[w], old[w] * old[w], exact[w])}

Always == [w \in Walkers |-> TRUE]
Never == [w \in Walkers |-> FALSE]

\* ---------------------------------------------------------------- kernels
\* What one next() on a generator leaves behind: the frame, and the item it
\* handed out (ok) or the exception it raised.
Outcome(ok, pc, r, p, f, lt, rn, acc, err, item) ==
    [ok |-> ok, gpc |-> pc, rs |-> r, psis |-> p, forces |-> f, lifetime |-> lt,
     rs_new |-> rn, accepted |-> acc, raised |-> err, item |-> item]

LUFactError(idxs) == [kind |-> "LUFactError", idxs |-> idxs, has_rs |-> FALSE, rs |-> Unset]

\* The chain position a resumed metropolis/hmc generator continues from: the
\* statement after its yield, assign_where((rs,), (rs_new,), accepted).
Resumed == IF gpc = "suspended" THEN AssignWhere(rs, rs_new, accepted) ELSE rs

\* A metropolis that yields after its conditional assignment.
MetropolisYieldedUpdated(cur, prop, mask) == AssignWhere(cur, prop, mask)

\* metropolis: the position handed out by `yield rs.clone(), ...`.
MetropolisYielded(cur, prop, mask) == cur

\* One next() on metropolis: prop is randn_like(rs) * stepsize, mask the
\* outcome of the uniform draws.
MetropolisStep(prop, mask) ==
    LET cur == Resumed
        p == WfEval(wf, cur)
    IN  Outcome(TRUE, "suspended", cur, p, forces, lifetime, prop, mask, NoError,
                [pos |-> Clone(MetropolisYielded(cur, prop, mask)),
                 psi |-> Clone(p),
                 info |-> [acceptance |-> Acceptance(mask), lifetime |-> NoLifetime]])

MetropolisMasks(prop) == AcceptMasks(WfEval(wf, prop), WfEval(wf, Resumed), Always)

\* dynamics: path[k] is p_te after the k-th position update; quantum_force is
\* evaluated at pos and at every p_te, and its failure is not caught.
Dynamics(f, pos, path) ==
    LET pts == <<pos>> \o path
        fails == {k \in DOMAIN pts : ~QForce(f, pts[k]).ok}
        first == CHOOSE k \in fails : \A m \in fails : k <= m
    IN  [ok |-> fails = {},
         idxs |-> IF fails = {} THEN {} ELSE QForce(f, pts[first]).idxs,
         p_te |-> path[Len(path)]]

\* hmc: the position handed out by `yield rs.clone(), ...`.
HmcYielded(cur, prop, mask) == cur

\* One next() on hmc.
HmcStep(path, mask) ==
    LET cur == Resumed
        d == Dynamics(wf, cur, path)
        p == WfEval(wf, cur)
    IN  IF ~d.ok
        THEN Outcome(FALSE, "finished", cur, psis, forces, lifetime, rs_new, accepted,
                     LUFactError(d.idxs), NoItem)
        ELSE Outcome(TRUE, "suspended", cur, p, forces, lifetime, d.p_te, mask, NoError,
                     [pos |-> Clone(HmcYielded(cur, d.p_te, mask)),
                      psi |-> Clone(p),
                      info |-> [acceptance |-> Acceptance(mask), lifetime |-> NoLifetime]])

\* The velocity factor of hmc's Ps_acc is any positive number.
HmcMasks(path) == AcceptMasks(WfEval(wf, path[Len(path)]), WfEval(wf, Resumed), Never)

\* The rows x[idxs], in index order.
Rows(x, idxs) ==
    LET ws == SelectSeq([w \in Walkers |-> w], LAMBDA w : w \in idxs)
    IN  [k \in DOMAIN ws |-> x[ws[k]]]

\* An attachment of the proposal's rows instead of the chain's.
LangevinAttachProposal(cur, prop, idxs) == Rows(prop, idxs)

\* langevin: e.info['rs'] = rs[e.info['idxs']].
LangevinAttach(cur, prop, idxs) == Rows(cur, idxs)

\* A lifetime that is never reset.
LangevinLifetimeNoReset(lt, mask) == [w \in Walkers |-> IF mask[w] THEN lt[w] ELSE lt[w] + 1]

\* langevin: lifetime[accepted] = 0; lifetime[~accepted] += 1.
LangevinLifetime(lt, mask) == [w \in Walkers |-> IF mask[w] THEN 0 ELSE lt[w] + 1]

\* A conditional assignment that leaves the forces out.
LangevinUpdateNoForces(old, new, mask) ==
    [rs |-> AssignWhere(old.rs, new.rs, mask),
     psis |-> AssignWhere(old.psis, new.psis, mask),
     forces |-> old.forces]

\* langevin: assign_where((rs, psis, forces), (rs_new, psis_new, forces_new), accepted).
LangevinUpdate(old, new, mask) ==
    [rs |-> AssignWhere(old.rs, new.rs, mask),
     psis |-> AssignWhere(old.psis, new.psis, mask),
     forces |-> AssignWhere(old.forces, new.forces, mask)]

\* The frame a langevin step starts from: on the first next() the statements
\* before the loop run first (forces, psis = qforce(rs, wf); lifetime zeros).
LangevinFrame ==
    IF gpc = "created"
    THEN LET q == QForce(wf, rs)
         IN  [ok |-> q.ok, idxs |-> q.idxs, rs |-> rs, psis |-> q.psis,
              forces |-> q.forces, lifetime |-> [w \in Walkers |-> 0]]
    ELSE [ok |-> TRUE, idxs |-> {}, rs |-> rs, psis |-> psis,
          forces |-> forces, lifetime |-> lifetime]

\* Whether the Green's-function factor exp(log_G_ratios) is exactly 1.
LangevinExact(f, fn) == [w \in Walkers |-> f[w] + fn[w] = 0]

\* One next() on langevin_monte_carlo: prop is rs_new.
LangevinStep(prop, mask) ==
    LET fr == LangevinFrame
        q == QForce(wf, prop)
        lt == LangevinLifetime(fr.lifetime, mask)
        up == LangevinUpdate(fr, [rs |-> prop, psis |-> q.psis, forces |-> q.forces], mask)
    IN  IF ~fr.ok
        THEN Outcome(FALSE, "finished", rs, psis, forces, lifetime, rs_new, accepted,
                     LUFactError(fr.idxs), NoItem)
        ELSE IF ~q.ok
        THEN Outcome(FALSE, "finished", fr.rs, fr.psis, fr.forces, fr.lifetime, prop,
                     accepted,
                     [kind |-> "LUFactError", idxs |-> q.idxs, has_rs |-> TRUE,
                      rs |-> LangevinAttach(fr.rs, prop, q.idxs)],
                     NoItem)
        ELSE Outcome(TRUE, "suspended", up.rs, up.psis, up.forces, lt, prop, mask, NoError,
                     [pos |-> Clone(up.rs),
                      psi |-> Clone(up.psis),
                      info |-> [acceptance |-> Acceptance(mask),
                                lifetime |-> CpuNumpy(device, "lifetime", lt)]])

LangevinMasks(prop) ==
    LET fr == LangevinFrame
        q == QForce(wf, prop)
    IN  AcceptMasks(q.psis, fr.psis, LangevinExact(fr.forces, q.forces))

\* The synthetic stream: its k-th item carries k as position and amplitude.
SyntheticStep(k) ==
    Outcome(TRUE, "suspended", rs, psis, forces, lifetime, rs_new, accepted, NoError,
            [pos |-> Clone([w \in Walkers |-> k]),
             psi |-> Clone([w \in Walkers |-> k]),
             info |-> [acceptance |-> Acceptance(Always), lifetime |-> NoLifetime]])

\* ----------------------------------------------------------- samples_from
\* range(a, b) as a sequence.
Range(a, b) == [k \in 1..(b - a) |-> a + k - 1]

\* A filter that thins relative to the end of the burn-in.
RetainFromDiscard(i, nd, nc) == i >= nd /\ (i - nd) % (nc + 1) = 0

\* The filter of the generator expression:
\* i >= n_discard and i % (n_decorrelate + 1) == 0.
Retain(i, nd, nc) == i >= nd /\ i % (nc + 1) = 0

\* A zip that draws from the sampler first.
PulledSamplerFirst(n) == n + 1

\* zip(steps, sampler) draws from steps first: once steps is exhausted the
\* sampler is not advanced again.
PulledAtExhaustion(n) == n

NoResult == [rs |-> Unset, psis |-> Unset, infos |-> Unset]

\* An unpacking that accepts empty columns.
UnpackLenient(k) ==
    [ok |-> TRUE,
     rs |-> [t \in DOMAIN k |-> k[t].pos],
     psis |-> [t \in DOMAIN k |-> k[t].psi],
     infos |-> [t \in DOMAIN k |-> k[t].info]]

\* rs, psis, infos = zip(*retained): three columns, or nothing to unpack.
Unpack(k) ==
    [ok |-> Len(k) > 0,
     rs |-> [t \in DOMAIN k |-> k[t].pos],
     psis |-> [t \in DOMAIN k |-> k[t].psi],
     infos |-> [t \in DOMAIN k |-> k[t].info]]

\* torch.stack(xs, dim=1): a new tensor, walker x time.
Stack(xs) == [w \in Walkers |-> [t \in DOMAIN xs |-> Read(xs[t])[w]]]

\* One turn of zip(steps, sampler) with the filter applied, o being what
\* next(sampler) did.  A kept step also records the index it was paired with
\* and its ordinal among the pulled items.
Pulling == spc = "running" /\ j < Len(steps)

Pull(o) ==
    /\ gpc' = o.gpc /\ rs' = o.rs /\ psis' = o.psis /\ forces' = o.forces
    /\ lifetime' = o.lifetime /\ rs_new' = o.rs_new /\ accepted' = o.accepted
    /\ raised' = o.raised
    /\ j' = j + 1
    /\ pulled' = pulled + 1
    /\ IF o.ok
       THEN /\ kept' = IF Retain(steps[j + 1], n_discard, n_decorrelate)
                       THEN Append(kept, [pos |-> o.item.pos, psi |-> o.item.psi,
                                          info |-> o.item.info,
                                          idx |-> steps[j + 1], ord |-> pulled])
                       ELSE kept
            /\ UNCHANGED <<spc, sferr>>
       ELSE /\ kept' = << >>
            /\ spc' = "raised"
            /\ sferr' = o.raised.kind
    /\ UNCHANGED <<kernel, wf, device, dysteps, rs0, resumed,
                   steps, n_discard, n_decorrelate, result, startVars>>

PullSynthetic ==
    /\ kernel = "synthetic"
    /\ Pulling
    /\ Pull(SyntheticStep(pulled))

PullMetropolis ==
    /\ kernel = "metropolis"
    /\ Pulling
    /\ \E prop \in Batches : \E mask \in MetropolisMasks(prop) :
          Pull(MetropolisStep(prop, mask))

PullHmc ==
    /\ kernel = "hmc"
    /\ Pulling
    /\ \E path \in [1..dysteps -> Batches] : \E mask \in HmcMasks(path) :
          Pull(HmcStep(path, mask))

PullLangevin ==
    /\ kernel = "langevin"
    /\ Pulling
    /\ \E prop \in Batches : \E mask \in LangevinMasks(prop) :
          Pull(LangevinStep(prop, mask))

\* steps is exhausted: the columns are unpacked and stacked.
SamplesExhaust ==
    /\ spc = "running"
    /\ j = Len(steps)
    /\ pulled' = PulledAtExhaustion(pulled)
    /\ LET u == Unpack(kept)
       IN  IF u.ok
           THEN /\ result' = [rs |-> Stack(u.rs), psis |-> Stack(u.psis), infos |-> u.infos]
                /\ spc' = "returned"
                /\ sferr' = sferr
           ELSE /\ result' = NoResult
                /\ spc' = "raised"
                /\ sferr' = "ValueError"
    /\ UNCHANGED <<genVars, steps, n_discard, n_decorrelate, j, kept, startVars>>

\* next() on a generator that an exception has ended: StopIteration, and the
\* frame is gone.
ResumeFinished ==
    /\ gpc = "finished"
    /\ ~resumed
    /\ resumed' = TRUE
    /\ UNCHANGED <<kernel, wf, device, dysteps, rs0, gpc, rs, psis, forces, lifetime,
                   rs_new, accepted, raised, sfVars, startVars>>

\* ------------------------------------------------------------------- Init
StartIdle ==
    /\ charges = << >> /\ n_walker = 0 /\ n_electrons = 0 /\ tpc = "idle"
    /\ n_left = 0 /\ l = << >> /\ lastTake = << >> /\ ind = << >> /\ shape = << >>

GenCreated ==
    /\ gpc = "created" /\ rs = rs0
    /\ psis = Unset /\ forces = Unset /\ lifetime = Unset
    /\ rs_new = Unset /\ accepted = Unset
    /\ raised = NoError /\ resumed = FALSE

SamplesCalled ==
    /\ j = 0 /\ pulled = 0 /\ kept = << >> /\ spc = "running"
    /\ result = NoResult /\ sferr = "none"

SamplesIdle ==
    /\ j = 0 /\ pulled = 0 /\ kept = << >> /\ spc = "idle"
    /\ result = NoResult /\ sferr = "none"

\* A kernel created on a walker batch and handed to samples_from for n steps.
InitKernel(kernels, n) ==
    /\ kernel \in kernels
    /\ wf \in Wavefunctions
    /\ device \in (IF kernel = "langevin" THEN {"cpu", "cuda"} ELSE {"cpu"})
    /\ dysteps \in (IF kernel = "hmc" THEN 1..MaxDysteps ELSE {1})
    /\ rs0 \in Batches
    /\ GenCreated
    /\ steps = Range(0, n)
    /\ n_discard = 0
    /\ n_decorrelate = 0
    /\ SamplesCalled
    /\ StartIdle

InitKernels == InitKernel({"metropolis", "hmc", "langevin"}, MaxShortSteps)
NextKernels == PullMetropolis \/ PullHmc \/ PullLangevin \/ SamplesExhaust \/ ResumeFinished
SpecKernels == InitKernels /\ [][NextKernels]_vars

InitLangevin == InitKernel({"langevin"}, MaxSteps)
NextLangevin == PullLangevin \/ SamplesExhaust \/ ResumeFinished
SpecLangevin == InitLangevin /\ [][NextLangevin]_vars

\* samples_from over the synthetic stream.
StepSeqs == UNION {[1..n -> 0..MaxIdx] : n \in 0..MaxLen}

InitSamples ==
    /\ kernel = "synthetic" /\ wf = [p \in Pos |-> 1] /\ device = "cpu" /\ dysteps = 1
    /\ rs0 = [w \in Walkers |-> 0]
    /\ GenCreated
    /\ \/ /\ steps \in StepSeqs
          /\ n_discard \in 0..MaxDiscard
          /\ n_decorrelate \in 0..MaxDecorrelate
       \/ /\ steps = Range(0, 20)
          /\ n_discard \in {0, 5}
          /\ n_decorrelate \in {0, 1}
    /\ SamplesCalled
    /\ StartIdle
NextSamples == PullSynthetic \/ SamplesExhaust
SpecSamples == InitSamples /\ [][NextSamples]_vars

\* ----------------------------------------------------------- sample_start
\* The per-atom charges of the geometries sample_start is called with.
Geometries == { <<1>>, <<1, 1>>, <<2, 1>>, <<1, 1, 1>> }

\* np.repeat(np.arange(from, len(c)), c): atom i (from 0), c[i + 1] times.
RECURSIVE Repeat(_, _)
Repeat(c, from) ==
    IF from >= Len(c) THEN << >>
    ELSE [k \in 1..c[from + 1] |-> from] \o Repeat(c, from + 1)

\* The sequences of k distinct elements of S.
RECURSIVE Arrangements(_, _)
Arrangements(S, k) ==
    IF k = 0 THEN { << >> }
    ELSE UNION { { <<x>> \o r : r \in Arrangements(S \ {x}, k - 1) } : x \in S }

\* A draw of k positions with replacement.
ChoiceWithReplacement(m, k) == [1..k -> 1..m]

\* np.random.choice(a, k, replace=False) for len(a) = m, as positions of a.
Choice(m, k) == Arrangements(1..m, k)

\* np.random.permutation(x): x in any order.
Permuted(x) == { [k \in DOMAIN x |-> x[s[k]]] : s \in Arrangements(DOMAIN x, Len(x)) }

\* The list a that sample_start hands to take.
TakeFrom == Repeat(charges, 0)

\* take, one turn of `while n > len(a)`: a full pass without replacement.
TakePass ==
    /\ tpc = "take"
    /\ n_left > Len(TakeFrom)
    /\ \E pass \in Choice(Len(TakeFrom), Len(TakeFrom)) :
          l' = l \o pass
    /\ n_left' = n_left - Len(TakeFrom)
    /\ UNCHANGED <<charges, n_walker, n_electrons, tpc, lastTake, ind, shape,
                   genVars, sfVars>>

\* take, after the loop: the remainder is drawn, the whole is permuted and
\* returned; sample_start's comprehension then calls take for the next
\* walker, or has all its rows.
TakeReturn ==
    /\ tpc = "take"
    /\ n_left <= Len(TakeFrom)
    /\ \E rest \in Choice(Len(TakeFrom), n_left) :
       \E ret \in Permuted(l \o rest) :
          /\ lastTake' = ret
          /\ ind' = Append(ind, [k \in DOMAIN ret |-> TakeFrom[ret[k]]])
    /\ l' = << >>
    /\ n_left' = n_electrons
    /\ tpc' = IF Len(ind) + 1 < n_walker THEN "take" ELSE "rows"
    /\ UNCHANGED <<charges, n_walker, n_electrons, shape, genVars, sfVars>>

Product(sh) == IF Len(sh) = 0 THEN 1
               ELSE IF Len(sh) = 1 THEN sh[1]
               ELSE IF Len(sh) = 2 THEN sh[1] * sh[2]
               ELSE IF Len(sh) = 3 THEN sh[1] * sh[2] * sh[3]
               ELSE sh[1] * sh[2] * sh[3] * sh[4]

\* coords[None, :, :].take(ind, axis=1).view(-1, n_electrons, 3): the taken
\* array is 1 x ind.shape x 3, viewed with the first extent inferred.
ViewedShape(rows, ne) ==
    LET taken == <<1, Len(rows), Len(rows[1]), 3>>
    IN  <<Product(taken) \div (ne * 3), ne, 3>>

\* sample_start's last statements: the noise torch.randn(n_walker,
\* n_electrons, 3) plus the viewed centres, of equal shape.
StartReturn ==
    /\ tpc = "rows"
    /\ shape' = ViewedShape(ind, n_electrons)
    /\ shape' = <<n_walker, n_electrons, 3>>
    /\ tpc' = "returned"
    /\ UNCHANGED <<charges, n_walker, n_electrons, n_left, l, lastTake, ind,
                   genVars, sfVars>>

\* sample_start called on a geometry.
InitStart ==
    /\ kernel = "synthetic" /\ wf = [p \in Pos |-> 1] /\ device = "cpu" /\ dysteps = 1
    /\ rs0 = [w \in Walkers |-> 0]
    /\ GenCreated
    /\ steps = << >> /\ n_discard = 0 /\ n_decorrelate = 0
    /\ SamplesIdle
    /\ charges \in Geometries
    /\ n_walker \in 1..MaxWalkers
    /\ n_electrons \in 1..MaxElectrons
    /\ tpc = "take" /\ n_left = n_electrons /\ l = << >>
    /\ lastTake = << >> /\ ind = << >> /\ shape = << >>
NextStart == TakePass \/ TakeReturn \/ StartReturn
SpecStart == InitStart /\ [][NextStart]_vars

\* The whole module: any of the calls above.
Init == InitKernels \/ InitLangevin \/ InitSamples \/ InitStart
Next ==
    \/ PullSynthetic \/ PullMetropolis \/ PullHmc \/ PullLangevin
    \/ SamplesExhaust \/ ResumeFinished
    \/ TakePass \/ TakeReturn \/ StartReturn
Spec == Init /\ [][Next]_vars

\* ---------------------------------------------------------------- claims
\* The ordinals k (from 0) of the first n indices of steps that pass
\* i >= n_discard and i mod (n_decorrelate + 1) = 0, in order.
PassingOrdinals(n) ==
    SelectSeq(Range(0, n),
              LAMBDA k : /\ steps[k + 1] >= n_discard
                         /\ steps[k + 1] % (n_decorrelate + 1) = 0)

\* C1: samples_from pairs the j-th index of steps with the j-th item pulled
\* and keeps the item iff its index i has i >= n_discard and
\* i mod (n_decorrelate + 1) = 0; the kept items are stacked along the time
\* axis in pull order (the k-th synthetic item carries k), and with
\* n_discard = 0, n_decorrelate = 0 every pulled item is kept.
C1_RetainedAreFiltered ==
    /\ \A t \in DOMAIN kept : kept[t].idx = steps[kept[t].ord + 1]
    /\ spc # "raised" => [t \in DOMAIN kept |-> kept[t].ord] = PassingOrdinals(j)
    /\ spc = "returned" =>
          \A w \in Walkers : /\ result.rs[w] = PassingOrdinals(Len(steps))
                             /\ result.psis[w] = PassingOrdinals(Len(steps))
    /\ (n_discard = 0 /\ n_decorrelate = 0 /\ spc # "raised") => Len(kept) = pulled

C1_Witness ==
    /\ spc = "returned"
    /\ n_discard > 0 /\ n_decorrelate > 0
    /\ Len(kept) >= 2 /\ Len(kept) < Len(steps)

IsTestWindow == steps = Range(0, 20) /\ n_discard = 5 /\ n_decorrelate = 1

\* C2 as stated: over the indices 0..19 with n_discard = 5 and
\* n_decorrelate = 1 the retained indices are 5,7,9,11,13,15,17,19, stacked
\* in this order.
C2_OddIndicesRetained ==
    (IsTestWindow /\ spc = "returned") =>
        /\ [t \in DOMAIN kept |-> kept[t].idx] = <<5, 7, 9, 11, 13, 15, 17, 19>>
        /\ \A w \in Walkers : result.rs[w] = <<5, 7, 9, 11, 13, 15, 17, 19>>

\* C2, amended: over the indices 0..19 with n_discard = 5 and
\* n_decorrelate = 1 the retained indices are 6,8,10,12,14,16,18 (the even
\* indices from 5 on), and the stacked positions and amplitudes list them in
\* this order.
C2_EvenIndicesRetained ==
    (IsTestWindow /\ spc = "returned") =>
        /\ [t \in DOMAIN kept |-> kept[t].idx] = <<6, 8, 10, 12, 14, 16, 18>>
        /\ \A w \in Walkers : /\ result.rs[w] = <<6, 8, 10, 12, 14, 16, 18>>
                              /\ result.psis[w] = <<6, 8, 10, 12, 14, 16, 18>>

C2_Witness == IsTestWindow /\ spc = "returned" /\ pulled = 20 /\ Len(kept) = 7

NothingRetained ==
    \A k \in DOMAIN steps :
        ~(steps[k] >= n_discard /\ steps[k] % (n_decorrelate + 1) = 0)

\* C7: when no pulled step is retained (steps empty, every index below
\* n_discard, or no index a multiple of n_decorrelate + 1), samples_from
\* ends with an error and returns no result.
C7_EmptyWindowFails ==
    /\ (spc # "running" /\ NothingRetained) =>
          (spc = "raised" /\ sferr = "ValueError" /\ result = NoResult)
    /\ spc = "raised" => result = NoResult

C7_Witness ==
    /\ spc = "raised" /\ sferr = "ValueError"
    /\ Len(steps) >= 2
    /\ \A k \in DOMAIN steps : steps[k] >= n_discard
    /\ pulled = Len(steps)

\* C8: samples_from advances the sampler once per index drawn from steps,
\* retained or not, and never after steps is exhausted: it ends having
\* pulled exactly Len(steps) items.
C8_OnePullPerIndex ==
    /\ pulled = j
    /\ j <= Len(steps)
    /\ spc # "running" => pulled = Len(steps)

C8_Witness ==
    /\ spc = "returned"
    /\ Len(steps) >= 3
    /\ pulled = Len(steps)
    /\ Len(kept) < pulled

\* The generator handed out an item in this step.
Yielded == gpc' = "suspended" /\ pulled' = pulled + 1

\* C3 as stated: every record a kernel handed out still holds the values it
\* was handed out with, whatever the chain did since (position, amplitude and
\* the lifetime vector of the diagnostics), and so do the rows of the table
\* samples_from returns.
C3_RecordsKeepTheirValues ==
    /\ \A t \in DOMAIN kept :
          /\ Read(kept[t].pos) = kept[t].pos.v
          /\ Read(kept[t].psi) = kept[t].psi.v
          /\ Read(kept[t].info.lifetime) = kept[t].info.lifetime.v
    /\ spc = "returned" =>
          \A t \in DOMAIN result.infos :
              Read(result.infos[t].lifetime) = result.infos[t].lifetime.v

\* The lifetime reported with the step before: 0 when the chain starts.
ReportedBefore(w) == IF Len(kept) = 0 THEN 0 ELSE Last(kept).info.lifetime.v[w]

\* C4: the lifetime a langevin step reports for a walker (the value of the
\* vector when the step is handed out) is 0 if the walker accepted in that
\* step and one more than the value reported before (0 at the start) if it
\* rejected; when all walkers reject in steps 1..3 and all accept in step 4,
\* the four steps report 1, 2, 3, 0.
C4_LifetimeCountsRejections ==
    [][(kernel = "langevin" /\ Yielded) =>
         /\ \A w \in Walkers :
               Last(kept').info.lifetime.v[w] =
                   IF accepted'[w] THEN 0 ELSE ReportedBefore(w) + 1
         /\ (/\ Len(kept') = 4
             /\ \A t \in 1..3 : kept'[t].info.acceptance.num = 0
             /\ kept'[4].info.acceptance.num = Cardinality(Walkers))
            => \A w \in Walkers :
                  [t \in 1..4 |-> kept'[t].info.lifetime.v[w]] = <<1, 2, 3, 0>>
      ]_vars

C4_Witness ==
    /\ kernel = "langevin" /\ Len(kept) = 4
    /\ [t \in 1..4 |-> kept[t].info.lifetime.v[1]] = <<1, 2, 3, 0>>
    /\ [t \in 1..4 |-> kept[t].info.acceptance.num] = <<0, 0, 0, 2>>

\* C5: a metropolis or hmc step hands out the chain position before that
\* step's acceptance is applied: the first item is the initial position, the
\* next item is the previous one with exactly the walkers accepted in the
\* previous step replaced by that step's proposal, and the acceptance count
\* handed out belongs to the proposal still pending.  A langevin step hands
\* out the position with that step's accepted proposals already applied.
C5_YieldTiming ==
    [][Yielded =>
         /\ kernel \in {"metropolis", "hmc"} =>
               /\ Last(kept').pos.v = rs'
               /\ gpc = "created" => Last(kept').pos.v = rs0
               /\ gpc = "suspended" =>
                     Last(kept').pos.v =
                         [w \in Walkers |-> IF accepted[w] THEN rs_new[w]
                                            ELSE Last(kept).pos.v[w]]
               /\ Last(kept').info.acceptance.num = Count(accepted')
         /\ kernel = "langevin" =>
               /\ Last(kept').pos.v = rs'
               /\ Last(kept').pos.v =
                     [w \in Walkers |-> IF accepted'[w] THEN rs_new'[w] ELSE rs[w]]
               /\ Last(kept').info.acceptance.num = Count(accepted')
      ]_vars

C5_Witness ==
    /\ kernel = "metropolis" /\ gpc = "suspended" /\ Len(kept) = 2
    /\ kept[2].pos.v # kept[1].pos.v
    /\ kept[2].pos.v = rs
    /\ \E w \in Walkers : accepted[w] /\ rs_new[w] # rs[w]

\* C6: when the force evaluator fails on a langevin proposal, the failure
\* reaches the caller with the pre-update positions of the failing walkers
\* under 'rs'; no item is handed out, the chain's position, amplitude, forces
\* and lifetime stay as they were before the step, and the generator hands
\* out nothing afterwards.
C6_FailurePropagates ==
    [][/\ (gpc # "finished" /\ gpc' = "finished" /\ raised'.has_rs) =>
            /\ raised'.kind = "LUFactError"
            /\ raised'.idxs = {w \in Walkers : wf[rs_new'[w]] = 0}
            /\ raised'.idxs # {}
            /\ raised'.rs = Rows(rs, raised'.idxs)
            /\ spc' = "raised" /\ sferr' = "LUFactError" /\ result' = NoResult
            /\ Len(kept') <= Len(kept)
            /\ rs' = rs
            /\ gpc = "suspended" =>
                  (psis' = psis /\ forces' = forces /\ lifetime' = lifetime)
            /\ gpc = "created" =>
                  /\ psis' = WfEval(wf, rs)
                  /\ lifetime' = [w \in Walkers |-> 0]
       /\ gpc = "finished" =>
            /\ gpc' = "finished"
            /\ UNCHANGED <<rs, psis, forces, lifetime, raised, kept, pulled, result>>
      ]_vars

C6_Witness ==
    /\ kernel = "langevin" /\ gpc = "finished" /\ raised.has_rs
    /\ pulled >= 2
    /\ Len(raised.rs) = 1
    /\ resumed
    /\ spc = "raised"

\* C9: after every langevin step, and after a failed one, each walker's
\* stored amplitude and force are the evaluator's values at the walker's
\* stored position, and every amplitude handed out is the amplitude at the
\* position handed out with it.
C9_StateStaysConsistent ==
    /\ (kernel = "langevin" /\ (gpc = "suspended" \/ (gpc = "finished" /\ raised.has_rs))) =>
          /\ psis = WfEval(wf, rs)
          /\ forces = [w \in Walkers |-> Force(wf, rs[w])]
    /\ kernel = "langevin" =>
          \A t \in DOMAIN kept : kept[t].psi.v = WfEval(wf, kept[t].pos.v)

C9_Witness ==
    /\ kernel = "langevin" /\ gpc = "suspended" /\ pulled >= 2
    /\ accepted[1] /\ ~accepted[2]
    /\ rs # rs0
    /\ forces[1] # forces[2]
    /\ psis[1] # psis[2]

Uses(row, x) == Cardinality({k \in DOMAIN row : row[k] = x})

RECURSIVE Sum(_, _)
Sum(c, n) == IF n = 0 THEN 0 ELSE c[n] + Sum(c, n - 1)

\* C10: take(L, n) returns n entries and uses every position of L either
\* floor(n / len(L)) or floor(n / len(L)) + 1 times; every walker's row has
\* n_electrons atom indices, with exactly charge(a) of them on each atom a
\* when n_electrons is the total charge; the batch returned has shape
\* n_walker x n_electrons x 3.
C10_TakeIsBalanced ==
    /\ Len(ind) > 0 =>
          /\ Len(lastTake) = n_electrons
          /\ \A p \in DOMAIN TakeFrom :
                Uses(lastTake, p) \in { n_electrons \div Len(TakeFrom),
                                        n_electrons \div Len(TakeFrom) + 1 }
    /\ \A i \in DOMAIN ind :
          /\ Len(ind[i]) = n_electrons
          /\ n_electrons = Sum(charges, Len(charges)) =>
                \A a \in DOMAIN charges : Uses(ind[i], a - 1) = charges[a]
    /\ tpc = "returned" =>
          /\ shape = <<n_walker, n_electrons, 3>>
          /\ Len(ind) = n_walker

C10_Witness ==
    /\ tpc = "returned"
    /\ charges = <<2, 1>> /\ n_electrons = 3 /\ n_walker = 2
    /\ ind[1] # ind[2]
    /\ \A i \in DOMAIN ind : Uses(ind[i], 0) = 2 /\ Uses(ind[i], 1) = 1

====
